---- MODULE Spec2Model ----
(***************************************************************************)
(* cdrle: run-length codec for 0x00 / 0xFF runs (src/src/lib.rs).          *)
(* compress scans the raw input byte by byte, emits literals and 2-byte    *)
(* run records, then complements the first 4 bytes of the output.          *)
(* decompress scans a compressed buffer token by token, complementing     *)
(* each byte read at a position below 4.                                   *)
(* Bytes are the integers 0..255; Rust's 0-based index i addresses the     *)
(* TLA+ sequence element i + 1.                                            *)
(***************************************************************************)
EXTENDS Integers, Sequences, FiniteSets, TLC

VARIABLES
    input,   \* compress: the raw input slice
    k,       \* compress: number of input bytes the for loop has consumed
    out,     \* compress: the output Vec
    zero,    \* compress: pending 0x00 run counter
    ff,      \* compress: pending 0xFF run counter
    calls,   \* history of the emit_run calls: <<[is_ff, n, at]>>, at = out.len() at the call
    comp,    \* decompress: the compressed slice
    i,       \* decompress: scan index
    dout,    \* decompress: the output Vec (`out` in decompress)
    ret,     \* decompress: the returned value, [kind, buf, len]
    pc       \* position of the program

vars == <<input, k, out, zero, ff, calls, comp, i, dout, ret, pc>>

----------------------------------------------------------------------------
(* Program constants *)

MAX_ZERO_RUN == 128
MAX_FF_RUN == 32
NEG_PREFIX == 4

(* Bounds of the model *)

MaxBlocks == 2      \* a raw input is at most this many blocks of equal bytes
MaxLit == 3         \* a block of literal bytes is at most this long
MaxCompLen == 6     \* an arbitrary compressed buffer is at most this long

----------------------------------------------------------------------------
(* u8 bit operations, bit by bit *)

RECURSIVE BitAnd(_, _)
BitAnd(a, b) ==
    IF a = 0 \/ b = 0 THEN 0
    ELSE (a % 2) * (b % 2) + 2 * BitAnd(a \div 2, b \div 2)

RECURSIVE BitOr(_, _)
BitOr(a, b) ==
    IF a = 0 THEN b
    ELSE IF b = 0 THEN a
    ELSE (IF a % 2 = 1 \/ b % 2 = 1 THEN 1 ELSE 0) + 2 * BitOr(a \div 2, b \div 2)

RECURSIVE BitXor(_, _)
BitXor(a, b) ==
    IF a = 0 THEN b
    ELSE IF b = 0 THEN a
    ELSE ((a + b) % 2) + 2 * BitXor(a \div 2, b \div 2)

Min(a, b) == IF a < b THEN a ELSE b

----------------------------------------------------------------------------
(* Inputs *)

Repeat(b, n) == [j \in 1..n |-> b]

\* run lengths around the two caps
RunLens == {1, MAX_FF_RUN - 1, MAX_FF_RUN, MAX_FF_RUN + 1,
            MAX_ZERO_RUN - 1, MAX_ZERO_RUN, MAX_ZERO_RUN + 1}

Literals == {42, 170}

Blocks == ({0, 255} \X RunLens) \cup (Literals \X (1..MaxLit))

RECURSIVE Flatten(_)
Flatten(bs) ==
    IF bs = <<>> THEN <<>>
    ELSE Repeat(Head(bs)[1], Head(bs)[2]) \o Flatten(Tail(bs))

Inputs == {Flatten(bs) : bs \in UNION {[1..m -> Blocks] : m \in 0..MaxBlocks}}

\* bytes of an arbitrary compressed buffer: the marker 0x00, the control
\* bytes 0x9F (0xFF run of 32), 0xA0 (0xFF run of 33), and the complement
\* of each, which plays the same role at a position below 4
CompBytes == {0, 255, 159, 96, 160, 95}

CompInputs == UNION {[1..m -> CompBytes] : m \in 0..MaxCompLen}

NoRet == [kind |-> "None", buf |-> <<>>, len |-> 0]

----------------------------------------------------------------------------
(* compress *)

\* the encoder's locals as one record
Enc == [out |-> out, zero |-> zero, ff |-> ff, calls |-> calls]

\* lib.rs emit_run: push the marker and the control byte.
\* (n as u8) - 1 is computed modulo 256.
emit_run(s, is_ff, n) ==
    LET c0 == BitAnd(((n % 256) - 1) % 256, 127)
        ctrl == IF is_ff THEN BitOr(c0, 128) ELSE c0
    IN [s EXCEPT !.out = Append(Append(@, 0), ctrl),
                 !.calls = Append(@, [is_ff |-> is_ff, n |-> n, at |-> Len(s.out)])]

\* variant: the zero counter is not reset after its record is emitted
flush_keep_zero(s) ==
    LET s1 == IF s.ff # 0 THEN [emit_run(s, TRUE, s.ff) EXCEPT !.ff = 0] ELSE s
    IN IF s1.zero # 0 THEN emit_run(s1, FALSE, s1.zero) ELSE s1

\* lib.rs flush: pending 0xFF run first, then pending 0x00 run
flush(s) ==
    LET s1 == IF s.ff # 0 THEN [emit_run(s, TRUE, s.ff) EXCEPT !.ff = 0] ELSE s
    IN IF s1.zero # 0 THEN [emit_run(s1, FALSE, s1.zero) EXCEPT !.zero = 0] ELSE s1

\* variant: the cap test is one too late
zero_full_late(z) == z = MAX_ZERO_RUN + 1

\* `if zero == MAX_ZERO_RUN`
zero_full(z) == z = MAX_ZERO_RUN

\* variant: the cap test fires one byte early
ff_full_early(f) == f = MAX_FF_RUN - 1

\* variant: the 0xFF counter is compared with the cap of the zero-runs
ff_full_zero_cap(f) == f = MAX_ZERO_RUN

\* `if ff == MAX_FF_RUN`
ff_full(f) == f = MAX_FF_RUN

\* the body of the for loop: match b { 0x00, 0xFF, _ }
scan_byte(s, b) ==
    IF b = 0 THEN
        LET s1 == IF s.ff # 0 THEN [emit_run(s, TRUE, s.ff) EXCEPT !.ff = 0] ELSE s
            s2 == [s1 EXCEPT !.zero = @ + 1]
        IN IF zero_full(s2.zero)
           THEN [emit_run(s2, FALSE, MAX_ZERO_RUN) EXCEPT !.zero = 0]
           ELSE s2
    ELSE IF b = 255 THEN
        LET s1 == IF s.zero # 0 THEN [emit_run(s, FALSE, s.zero) EXCEPT !.zero = 0] ELSE s
            s2 == [s1 EXCEPT !.ff = @ + 1]
        IN IF ff_full(s2.ff)
           THEN [emit_run(s2, TRUE, MAX_FF_RUN) EXCEPT !.ff = 0]
           ELSE s2
    ELSE
        [flush(s) EXCEPT !.out = Append(@, b)]

\* variant: the pass covers one byte too many
negate_prefix_five(o) ==
    LET lim == Min(NEG_PREFIX, Len(o))
    IN [j \in 1..Len(o) |-> IF j - 1 <= lim THEN BitXor(o[j], 255) ELSE o[j]]

\* the finishing pass: out[i] ^= 0xFF for i in 0..min(4, out.len())
negate_prefix(o) ==
    LET lim == Min(NEG_PREFIX, Len(o))
    IN [j \in 1..Len(o) |-> IF j - 1 < lim THEN BitXor(o[j], 255) ELSE o[j]]

\* one iteration of `for &b in input`
CompressScan ==
    /\ pc = "scan"
    /\ k < Len(input)
    /\ LET s == scan_byte(Enc, input[k + 1])
       IN /\ out' = s.out
          /\ zero' = s.zero
          /\ ff' = s.ff
          /\ calls' = s.calls
    /\ k' = k + 1
    /\ UNCHANGED <<input, comp, i, dout, ret, pc>>

\* the flush after the loop
CompressFlush ==
    /\ pc = "scan"
    /\ k = Len(input)
    /\ LET s == flush(Enc)
       IN /\ out' = s.out
          /\ zero' = s.zero
          /\ ff' = s.ff
          /\ calls' = s.calls
    /\ pc' = "negate"
    /\ UNCHANGED <<input, k, comp, i, dout, ret>>

\* the complement pass and the return of out
CompressNegate ==
    /\ pc = "negate"
    /\ out' = negate_prefix(out)
    /\ pc' = "compressed"
    /\ UNCHANGED <<input, k, zero, ff, calls, comp, i, dout, ret>>

\* roundtrip.rs: let c = compress(data); decompress(&c)
RoundTrip ==
    /\ pc = "compressed"
    /\ comp' = out
    /\ i' = 0
    /\ dout' = <<>>
    /\ pc' = "decode"
    /\ UNCHANGED <<input, k, out, zero, ff, calls, ret>>

----------------------------------------------------------------------------
(* decompress *)

\* variant: position 4 is complemented too
read_unneg_le(c, idx) ==
    IF idx >= Len(c) THEN [panic |-> TRUE, b |-> 0, i |-> idx]
    ELSE [panic |-> FALSE,
          b |-> IF idx <= NEG_PREFIX THEN BitXor(c[idx + 1], 255) ELSE c[idx + 1],
          i |-> idx + 1]

\* variant: every position is complemented
read_unneg_all(c, idx) ==
    IF idx >= Len(c) THEN [panic |-> TRUE, b |-> 0, i |-> idx]
    ELSE [panic |-> FALSE, b |-> BitXor(c[idx + 1], 255), i |-> idx + 1]

\* lib.rs read_unneg: an index past the end is a panic
read_unneg(c, idx) ==
    IF idx >= Len(c) THEN [panic |-> TRUE, b |-> 0, i |-> idx]
    ELSE [panic |-> FALSE,
          b |-> IF idx < NEG_PREFIX THEN BitXor(c[idx + 1], 255) ELSE c[idx + 1],
          i |-> idx + 1]

\* variant: the end test is off by one
control_missing_gt(c, idx) == idx > Len(c)

\* `if i >= comp.len()` after the marker was read
control_missing(c, idx) == idx >= Len(c)

\* `(c & 0x80) != 0`
ctl_is_ff(ctl) == BitAnd(ctl, 128) # 0

\* variant: the length is not biased by one
ctl_len_nobias(ctl) == BitAnd(ctl, 127)

\* `(c & 0x7F) as usize + 1`
ctl_len(ctl) == BitAnd(ctl, 127) + 1

\* variant: a 0xFF run of exactly the cap is rejected
run_too_long_ge(is_ff, len) == is_ff /\ len >= MAX_FF_RUN

\* `if is_ff && len > MAX_FF_RUN`
run_too_long(is_ff, len) == is_ff /\ len > MAX_FF_RUN

\* the body of `while i < comp.len()`: the new i and out, and the value
\* returned when the body returns
decode_token(c, idx, o) ==
    LET r1 == read_unneg(c, idx) IN
    IF r1.panic THEN
        [i |-> r1.i, out |-> o, ret |-> [kind |-> "Panic", buf |-> <<>>, len |-> 0]]
    ELSE IF r1.b # 0 THEN
        [i |-> r1.i, out |-> Append(o, r1.b), ret |-> NoRet]
    ELSE IF control_missing(c, r1.i) THEN
        [i |-> r1.i, out |-> o,
         ret |-> [kind |-> "RunMarkerWithoutControl", buf |-> <<>>, len |-> 0]]
    ELSE
        LET r2 == read_unneg(c, r1.i) IN
        IF r2.panic THEN
            [i |-> r2.i, out |-> o, ret |-> [kind |-> "Panic", buf |-> <<>>, len |-> 0]]
        ELSE
            LET is_ff == ctl_is_ff(r2.b)
                len == ctl_len(r2.b)
                fill == IF is_ff THEN 255 ELSE 0
            IN IF run_too_long(is_ff, len) THEN
                   [i |-> r2.i, out |-> o,
                    ret |-> [kind |-> "InvalidRunLength", buf |-> <<>>, len |-> len]]
               ELSE
                   [i |-> r2.i, out |-> o \o Repeat(fill, len), ret |-> NoRet]

\* one iteration of the while loop
DecompressStep ==
    /\ pc = "decode"
    /\ i < Len(comp)
    /\ LET t == decode_token(comp, i, dout)
       IN /\ i' = t.i
          /\ ret' = t.ret
          /\ dout' = IF t.ret.kind = "None" THEN t.out ELSE <<>>
          /\ pc' = IF t.ret.kind = "None" THEN "decode" ELSE "done"
    /\ UNCHANGED <<input, k, out, zero, ff, calls, comp>>

\* the loop ends: Ok(out)
DecompressOk ==
    /\ pc = "decode"
    /\ i >= Len(comp)
    /\ ret' = [kind |-> "Ok", buf |-> dout, len |-> 0]
    /\ pc' = "done"
    /\ UNCHANGED <<input, k, out, zero, ff, calls, comp, i, dout>>

----------------------------------------------------------------------------
(* Specifications *)

\* compress(x) followed by decompress, for x drawn from Inputs
Init ==
    /\ input \in Inputs
    /\ k = 0
    /\ out = <<>>
    /\ zero = 0
    /\ ff = 0
    /\ calls = <<>>
    /\ comp = <<>>
    /\ i = 0
    /\ dout = <<>>
    /\ ret = NoRet
    /\ pc = "scan"

Next ==
    \/ CompressScan
    \/ CompressFlush
    \/ CompressNegate
    \/ RoundTrip
    \/ DecompressStep
    \/ DecompressOk

Spec == Init /\ [][Next]_vars

\* decompress(c) for an arbitrary buffer c
InitDecode ==
    /\ input = <<>>
    /\ k = 0
    /\ out = <<>>
    /\ zero = 0
    /\ ff = 0
    /\ calls = <<>>
    /\ comp \in CompInputs
    /\ i = 0
    /\ dout = <<>>
    /\ ret = NoRet
    /\ pc = "decode"

NextDecode ==
    \/ DecompressStep
    \/ DecompressOk

SpecDecode == InitDecode /\ [][NextDecode]_vars

----------------------------------------------------------------------------
(* Reference definitions used to state the properties *)

\* the byte at 0-based position j of c, with positions 0..3 complemented
Deobf(c, j) == IF j < 4 THEN 255 - c[j + 1] ELSE c[j + 1]

\* the left-to-right token scan of c from position j: its outcome, the
\* concatenated expansions and, for an oversized fill-run, its length
RECURSIVE TokenScan(_, _, _)
TokenScan(c, j, acc) ==
    IF j >= Len(c) THEN [kind |-> "Ok", buf |-> acc, len |-> 0]
    ELSE IF Deobf(c, j) # 0 THEN TokenScan(c, j + 1, acc \o <<Deobf(c, j)>>)
    ELSE IF j = Len(c) - 1 THEN [kind |-> "RunMarkerWithoutControl", buf |-> acc, len |-> 0]
    ELSE LET control == Deobf(c, j + 1)
             n == (control % 128) + 1
         IN IF control >= 128 /\ n > 32
            THEN [kind |-> "InvalidRunLength", buf |-> acc, len |-> n]
            ELSE TokenScan(c, j + 2, acc \o [x \in 1..n |-> IF control >= 128 THEN 255 ELSE 0])

\* the number of bytes of x equal to 0x00 or 0xFF
Special(x) == Cardinality({j \in 1..Len(x) : x[j] \in {0, 255}})

\* the index of the last byte of the maximal run of x that starts at j
RunEnd(x, j) ==
    CHOOSE e \in j..Len(x) :
        /\ \A m \in j..e : x[m] = x[j]
        /\ e < Len(x) => x[e + 1] # x[j]

\* the records of one maximal run of n bytes b: full records, then the rest
SplitRun(b, n) ==
    LET max == IF b = 0 THEN 128 ELSE 32
        kind == (b = 255)
    IN [x \in 1..(n \div max) |-> [is_ff |-> kind, n |-> max]]
       \o (IF n % max # 0 THEN <<[is_ff |-> kind, n |-> n % max]>> ELSE <<>>)

\* the records of the maximal 0x00 and 0xFF runs of x from index j on
RECURSIVE ExpectedRecords(_, _)
ExpectedRecords(x, j) ==
    IF j > Len(x) THEN <<>>
    ELSE LET e == RunEnd(x, j)
         IN (IF x[j] \in {0, 255} THEN SplitRun(x[j], e - j + 1) ELSE <<>>)
            \o ExpectedRecords(x, e + 1)

\* the emit_run calls made so far, without their positions
Records == [j \in 1..Len(calls) |-> [is_ff |-> calls[j].is_ff, n |-> calls[j].n]]

----------------------------------------------------------------------------
(* Properties *)

\* C1: round trip. When decompress has returned on the output of
\* compress(x), it returned Ok(x): not an error, not another sequence.
C1_RoundTrip ==
    pc = "done" => ret = [kind |-> "Ok", buf |-> input, len |-> 0]

\* a round trip has finished on an input whose first run record lies on
\* compressed positions 3 and 4
C1_Witness ==
    /\ pc = "done"
    /\ ret.kind = "Ok"
    /\ Len(input) >= 5
    /\ \A j \in 1..3 : input[j] \notin {0, 255}
    /\ input[4] \in {0, 255}
    /\ comp[4] = 255

\* C2: decoder totality on arbitrary buffers. The returned value is Ok or
\* one of the two errors, never a panic of an out-of-bounds read; the scan
\* index stays within the buffer and strictly increases on every iteration
\* of the loop, so the loop runs at most len(c) times.
C2_DecoderTotal ==
    /\ [](/\ ret.kind \in {"None", "Ok", "RunMarkerWithoutControl", "InvalidRunLength"}
          /\ (pc = "done") = (ret.kind # "None")
          /\ i <= Len(comp))
    /\ [][(pc = "decode" /\ i < Len(comp)) => i' > i]_vars

\* decompress has returned Ok on an arbitrary buffer with a run record on
\* positions 4 and 5
C2_Witness ==
    /\ pc = "done"
    /\ ret.kind = "Ok"
    /\ Len(comp) >= 6
    /\ i = Len(comp)
    /\ comp[5] = 0

\* C3: decompress returns RunMarkerWithoutControl exactly when the token scan
\* reaches a token-start byte that de-obfuscates to 0x00 at the last index,
\* with no oversized fill-run before it.
C3_RunMarkerWithoutControl ==
    pc = "done" =>
        ((ret.kind = "RunMarkerWithoutControl")
            = (TokenScan(comp, 0, <<>>).kind = "RunMarkerWithoutControl"))

\* the one-byte stream [0xFF]
C3_Witness ==
    /\ pc = "done"
    /\ comp = <<255>>
    /\ ret.kind = "RunMarkerWithoutControl"

\* the decoding of each of the 256 control bytes: the length test fails
\* exactly for bit 7 set and a length above 32, so for none of the 128
\* zero-run control bytes
ControlBytes ==
    \A ctl \in 0..255 :
        /\ ctl_is_ff(ctl) = (ctl >= 128)
        /\ ctl_len(ctl) = (ctl % 128) + 1
        /\ run_too_long(ctl_is_ff(ctl), ctl_len(ctl)) = (ctl >= 128 /\ (ctl % 128) + 1 > 32)

\* C4: decompress returns InvalidRunLength{len} exactly when the first
\* malformed token is a run record with bit 7 set and length above 32; len
\* is that length, in 33..128. A zero-run record gives no error, whatever
\* its 7-bit length field.
C4_InvalidRunLength ==
    pc = "done" =>
        LET t == TokenScan(comp, 0, <<>>)
        IN /\ ControlBytes
           /\ (ret.kind = "InvalidRunLength") = (t.kind = "InvalidRunLength")
           /\ ret.kind = "InvalidRunLength" => (ret.len = t.len /\ ret.len \in 33..128)
           /\ ret.kind # "InvalidRunLength" => ret.len = 0

\* the stream [0x00, 0xA0] with its two bytes complemented
C4_Witness ==
    /\ pc = "done"
    /\ comp = <<255, 95>>
    /\ ret = [kind |-> "InvalidRunLength", buf |-> <<>>, len |-> 33]

\* C5: every emit_run call has 1 <= n <= 128 for a zero-run and
\* 1 <= n <= 32 for a 0xFF-run, n fits a u8, and before the complement pass
\* the record it pushed is the marker 0x00 and control (n-1) | (0x80 if fill).
C5_EmitRunBounds ==
    \A j \in 1..Len(calls) :
        LET c == calls[j]
        IN /\ c.n >= 1
           /\ c.n <= (IF c.is_ff THEN 32 ELSE 128)
           /\ c.n % 256 = c.n
           /\ pc \in {"scan", "negate"} =>
                 /\ out[c.at + 1] = 0
                 /\ out[c.at + 2] = (c.n - 1) + (IF c.is_ff THEN 128 ELSE 0)

\* the scan has emitted a full zero-run and a full 0xFF-run
C5_Witness ==
    /\ pc = "negate"
    /\ \E j \in 1..Len(calls) : calls[j].is_ff /\ calls[j].n = 32
    /\ \E j \in 1..Len(calls) : ~calls[j].is_ff /\ calls[j].n = 128

\* C6: the complement pass turns the logical output into the same bytes with
\* exactly positions 0 .. min(4, len)-1 complemented, and keeps the length.
C6_NegateScope ==
    [][pc = "negate" =>
          /\ Len(out') = Len(out)
          /\ \A j \in 1..Len(out) :
                out'[j] = IF j <= 4 THEN 255 - out[j] ELSE out[j]]_vars

\* compress has returned an output of more than 4 bytes whose positions 3
\* and 4 hold a run record
C6_Witness ==
    /\ pc = "compressed"
    /\ Len(out) >= 5
    /\ \E j \in 1..Len(calls) : calls[j].at = 3
    /\ out[4] = 255
    /\ out[5] < 128

\* C7: when decompress returns Ok(out), out is the concatenation of the
\* expansions of the tokens parsed left to right.
C7_Expansion ==
    (pc = "done" /\ ret.kind = "Ok") => ret.buf = TokenScan(comp, 0, <<>>).buf

\* decompress has returned Ok on a buffer with a literal at position 0 and a
\* run record of 32 0xFF bytes on positions 4 and 5
C7_Witness ==
    /\ pc = "done"
    /\ ret.kind = "Ok"
    /\ Len(comp) >= 6
    /\ comp[1] = 0
    /\ comp[5] = 0
    /\ comp[6] = 159
    /\ Len(ret.buf) >= 33

\* C8: after the scan and the final flush, the records emitted are, run by
\* maximal run, floor(n/max) records of the maximum and then one of n mod max
\* when that is not zero; a record below the maximum is not directly
\* followed by a record of the same kind.
C8_RunSplitting ==
    pc = "negate" =>
        /\ Records = ExpectedRecords(input, 1)
        /\ \A j \in 1..(Len(calls) - 1) :
              (calls[j + 1].at = calls[j].at + 2 /\ calls[j + 1].is_ff = calls[j].is_ff)
                  => calls[j].n = (IF calls[j].is_ff THEN 32 ELSE 128)

\* 129 zeros then 33 0xFF bytes: records 128 + 1 and 32 + 1
C8_Witness ==
    /\ pc = "negate"
    /\ input = [j \in 1..162 |-> IF j <= 129 THEN 0 ELSE 255]
    /\ Records = <<[is_ff |-> FALSE, n |-> 128], [is_ff |-> FALSE, n |-> 1],
                   [is_ff |-> TRUE, n |-> 32], [is_ff |-> TRUE, n |-> 1]>>

\* C9: at every iteration boundary at most one of zero and ff is non-zero,
\* zero < 128 and ff < 32; a flush (the literal branch, the final flush)
\* emits at most one record.
C9_CounterInvariant ==
    /\ []((zero = 0 \/ ff = 0) /\ zero < 128 /\ ff < 32)
    /\ [][(pc = "scan" /\ (k = Len(input) \/ input[k + 1] \notin {0, 255}))
             => Len(calls') <= Len(calls) + 1]_vars

\* a literal has just flushed a pending run next to its cap
C9_Witness ==
    /\ pc = "scan"
    /\ k >= 2
    /\ input[k] \notin {0, 255}
    /\ input[k - 1] \in {0, 255}
    /\ Len(calls) >= 1
    /\ calls[Len(calls)].n \in {31, 127}
    /\ zero = 0
    /\ ff = 0

\* C10: len(compress(x)) <= len(x) + (number of 0x00 and 0xFF bytes of x),
\* so at most twice the input; the empty input gives the empty output and an
\* input without 0x00 and 0xFF gives an output of the same length.
C10_SizeBound ==
    pc = "compressed" =>
        /\ Len(out) <= Len(input) + Special(input)
        /\ Len(out) <= 2 * Len(input)
        /\ input = <<>> => out = <<>>
        /\ Special(input) = 0 => Len(out) = Len(input)

\* the worst case: alternating single 0x00 and 0xFF bytes double the size
C10_Witness ==
    /\ pc = "compressed"
    /\ Len(input) >= 2
    /\ Len(out) = 2 * Len(input)

====
